---- MODULE Spec2Model ----
(***************************************************************************)
(* Model of server/app.py: the session store, the /api/message handler     *)
(* (handle_message), the three generators and the video job poller.        *)
(*                                                                         *)
(* handle_message is an "async def" that never awaits: every backend call  *)
(* and time.sleep blocks the event loop, so one process runs one turn at a *)
(* time.  The model therefore has one handler position (pc); the video     *)
(* backend and the clock move on their own between the handler's steps.    *)
(* SpecLoop follows the event loop itself, with several requests at once.  *)
(***************************************************************************)
EXTENDS Integers, Sequences, FiniteSets, TLC

\* ---------------------------------------------------------------- bounds
\* number of requests the model submits
MaxTurns == 3
\* most whitespace characters on one side of a request text
MaxPad == 1
\* number of coroutine slots of the event loop
MaxTasks == 2
\* number of requests submitted to the event loop
LoopTurns == 3

\* ------------------------------------------------------------- constants
\* Python None for the optional strings (session_id, last_intent, status)
None == "None"
\* Python None for the optional backend ids; backend ids are 1, 2, ...
NoId == 0
VIDEO_POLL_SECONDS == 2
\* app.py reads the timeout from the environment (default 180); the model
\* runs with VIDEO_TIMEOUT_SECONDS=4, two polling rounds
VIDEO_TIMEOUT_SECONDS == 4
\* the coroutines the event loop holds are 1, 2, ...; NoTask is none of them
NoTask == 0
Tasks == 1 .. MaxTasks

\* request texts: nothing or a word, with whitespace on either side
Words == {<<"a">>}
Pad(n) == [i \in 1..n |-> " "]
Texts == {Pad(l) \o w \o Pad(r) : l \in 0..MaxPad, r \in 0..MaxPad, w \in Words \cup {<<>>}}
\* session ids a client makes up itself
ClientIds == {"s1"}
\* prompts the router hands to the generators
Prompts == {<<"p">>}
\* resp.output_text of the text backend
Replies == {<<"r">>}
Intent == {"text", "image", "video"}

\* -------------------------------------------------------- pure helpers
\* str.strip(): drop leading and trailing whitespace
RECURSIVE lstrip(_)
lstrip(s) ==
    IF s = <<>> THEN s
    ELSE IF Head(s) = " " THEN lstrip(Tail(s)) ELSE s

RECURSIVE rstrip(_)
rstrip(s) ==
    IF s = <<>> THEN s
    ELSE IF s[Len(s)] = " " THEN rstrip(SubSeq(s, 1, Len(s) - 1)) ELSE s

strip(s) == rstrip(lstrip(s))

\* SessionState(): the defaults of the pydantic model
SessionState ==
    [messages |-> <<>>,
     last_intent |-> None,
     last_image_response_id |-> NoId,
     last_video_id |-> NoId,
     last_video_completed |-> FALSE]

\* str(uuid.uuid4()): the n-th id the process draws; draws never repeat and
\* never hit an id a client made up
uuid4(n) == "u" \o ToString(n)

\* SESSIONS[sid] = SessionState()
StoreNew(store, sid) ==
    [s \in DOMAIN store \cup {sid} |-> IF s = sid THEN SessionState ELSE store[s]]

\* get_or_create_session without the lookup of line 89: every resolve inserts
get_or_create_session_AlwaysNew(store, sid, fresh) ==
    LET new == IF sid # None /\ sid # "" THEN sid ELSE fresh
    IN  [sid |-> new, store |-> StoreNew(store, new)]

\* get_or_create_session with line 91 reading sid = str(uuid.uuid4())
get_or_create_session_FreshForUnknown(store, sid, fresh) ==
    IF sid # None /\ sid # "" /\ sid \in DOMAIN store
    THEN [sid |-> sid, store |-> store]
    ELSE [sid |-> fresh, store |-> StoreNew(store, fresh)]

\* get_or_create_session(session_id) on store, drawing fresh as its uuid:
\* the returned id and the store afterwards
get_or_create_session(store, sid, fresh) ==
    IF sid # None /\ sid # "" /\ sid \in DOMAIN store
    THEN [sid |-> sid, store |-> store]
    ELSE LET new == IF sid # None /\ sid # "" THEN sid ELSE fresh
         IN  [sid |-> new, store |-> StoreNew(store, new)]

\* {"role": role, "content": content}
Msg(role, content) == [role |-> role, content |-> content]

\* session.messages.insert(0, m) in place of append
AppendMessage_Prepend(store, sid, m) ==
    [store EXCEPT ![sid].messages = <<m>> \o @]

\* session.messages.append(m) on the session stored under sid
AppendMessage(store, sid, m) ==
    [store EXCEPT ![sid].messages = Append(@, m)]

\* ------------------------------------------------- generator decisions
\* generate_image without lines 151-152: every request is a fresh one
ImageKwargs_Fresh(session) == NoId

\* generate_image, lines 150-152: the previous_response_id the request
\* carries (NoId: a fresh request)
ImageKwargs(session) ==
    IF session.last_intent = "image" /\ session.last_image_response_id # NoId
    THEN session.last_image_response_id
    ELSE NoId

\* generate_image, line 161: session.last_image_response_id = resp.id
StoreImageResponse(store, sid, id) ==
    [store EXCEPT ![sid].last_image_response_id = id]

\* generate_video, line 199 without the last_video_completed test
UseRemix_IgnoreFlag(session) ==
    /\ session.last_intent = "video"
    /\ session.last_video_id # NoId

\* generate_video, line 199: remix the recorded job, or create a fresh one
UseRemix(session) ==
    /\ session.last_intent = "video"
    /\ session.last_video_id # NoId
    /\ session.last_video_completed

\* generate_video with lines 212-213 moved behind the poll: nothing is
\* recorded when create/remix returns
RecordVideoJob_Skip(store, sid, id) == store

\* generate_video with last_intent written when the job is recorded
RecordVideoJob_SetsIntent(store, sid, id) ==
    [store EXCEPT ![sid].last_video_id = id, ![sid].last_video_completed = FALSE,
                  ![sid].last_intent = "video"]

\* generate_video without line 213: the completed flag is not cleared
RecordVideoJob_KeepFlag(store, sid, id) ==
    [store EXCEPT ![sid].last_video_id = id]

\* generate_video, lines 212-213
RecordVideoJob(store, sid, id) ==
    [store EXCEPT ![sid].last_video_id = id, ![sid].last_video_completed = FALSE]

\* generate_video, line 216
MarkVideoCompleted(store, sid) ==
    [store EXCEPT ![sid].last_video_completed = TRUE]

\* session.last_intent = intent (lines 253, 264, 277)
SetLastIntent(store, sid, intent) ==
    [store EXCEPT ![sid].last_intent = intent]

\* the generated bytes appended in place of the marker
Marker_Payload(kind, url) == <<"bytes">>

\* handle_message, lines 266 and 278: f"[{kind} generated] {url}"
Marker(kind, url) == <<"[" \o kind \o " generated] " \o url>>

\* poll_video_until_done with "while True" on line 179
BeforeDeadline_Always(e) == TRUE

\* poll_video_until_done, line 179: time.time() < deadline, e seconds after
\* the deadline was set
BeforeDeadline(e) == e < VIDEO_TIMEOUT_SECONDS

\* save_bytes(ext, data): the url of the n-th file written
save_bytes(ext, n) == "/outputs/" \o ToString(n) \o "." \o ext

\* HTTPException(status_code, detail)
HTTPException(status, detail) == [http |-> TRUE, status |-> status, detail |-> detail]
\* any other exception (backend error, AttributeError, binascii.Error, ...)
OtherException == [http |-> FALSE, status |-> 0, detail |-> <<"error", NoId>>]

\* poll_video_until_done, line 185
VideoJobFailed(video_id) == HTTPException(500, <<"Video job failed: ", video_id>>)
\* poll_video_until_done, line 187
VideoJobTimeout(video_id) == HTTPException(504, <<"Video generation timed out: ", video_id>>)
\* generate_image, line 172
NoImageGenerated == HTTPException(500, <<"No image generated in response output.", NoId>>)

\* handle_message without lines 288-289: every exception becomes a 500
Surface_Generic(e) == [status |-> 500, detail |-> <<"str(e)", NoId>>]

\* handle_message, lines 288-291: an HTTPException is re-raised as it is,
\* anything else becomes a 500 carrying str(e)
Surface(e) ==
    IF e.http
    THEN [status |-> e.status, detail |-> e.detail]
    ELSE [status |-> 500, detail |-> <<"str(e)", NoId>>]

\* ChatResponse(...) of a successful turn
ChatResponse(intent) == [status |-> 200, detail |-> <<intent, NoId>>]

Min(a, b) == IF a < b THEN a ELSE b

\* ---------------------------------------------------------------- state
VARIABLES
    SESSIONS,      \* the process-wide session registry
    pc,            \* position of the handler
    req,           \* the ChatRequest being handled
    session_id,    \* handle_message's session_id
    user_text,     \* handle_message's user_text
    decision,      \* handle_message's decision
    call,          \* the generation request the turn sent to a backend
    resp_id,       \* generate_image's resp.id
    job_id,        \* generate_video's job.id
    status,        \* poll_video_until_done's status
    elapsed,       \* seconds since poll_video_until_done set its deadline
    exc,           \* the exception in flight inside the try block
    response,      \* what the caller receives
    jobs,          \* video backend: jobs[id] is the status of job id
    responses,     \* image backend: number of responses created
    files,         \* number of files save_bytes has written
    uuids,         \* number of uuid4 session ids drawn so far
    turns,         \* number of requests submitted so far
    SESSIONS0,     \* history: the registry when the current request arrived
    observed,      \* history: the jobs the poller has seen completed
    poll_result,   \* history: how the poller of this turn ended
    prev,          \* history: per session, its last finished turn
    tasks,         \* event loop: tasks[t] is the state of coroutine t
    running        \* event loop: the coroutine that has the loop, or NoTask

locals == <<req, session_id, user_text, decision, call, resp_id, job_id, status,
            elapsed, exc, response, poll_result>>
backend == <<jobs, responses, files, uuids>>
history == <<turns, SESSIONS0, observed, prev>>
loop == <<tasks, running>>
vars == <<SESSIONS, pc, locals, backend, history, loop>>

NoRequest == [session_id |-> None, text |-> <<>>]
NoDecision == [intent |-> None, prompt |-> <<>>]
NoCall == [kind |-> "none", arg |-> NoId]
NoException == [http |-> FALSE, status |-> 0, detail |-> <<"", NoId>>]
NoResponse == [status |-> 0, detail |-> <<"", NoId>>]
NoTurn == [intent |-> None, ok |-> FALSE, resp_id |-> NoId]
\* a coroutine slot of the event loop with no request in it
NoTaskState == [pc |-> "none", request |-> None, session_id |-> None,
                job_id |-> NoId, elapsed |-> 0]

\* the session object handle_message holds
session == SESSIONS[session_id]
\* the last finished turn of session sid
PrevTurn(sid) == IF sid \in DOMAIN prev THEN prev[sid] ELSE NoTurn

Init ==
    /\ SESSIONS = [s \in {} |-> SessionState]
    /\ pc = "idle"
    /\ req = NoRequest
    /\ session_id = None
    /\ user_text = <<>>
    /\ decision = NoDecision
    /\ call = NoCall
    /\ resp_id = NoId
    /\ job_id = NoId
    /\ status = None
    /\ elapsed = 0
    /\ exc = NoException
    /\ response = NoResponse
    /\ poll_result = None
    /\ jobs = <<>>
    /\ responses = 0
    /\ files = 0
    /\ uuids = 0
    /\ turns = 0
    /\ SESSIONS0 = [s \in {} |-> SessionState]
    /\ observed = {}
    /\ prev = [s \in {} |-> NoTurn]
    /\ tasks = [t \in Tasks |-> NoTaskState]
    /\ running = NoTask

\* line 239: a request arrives and its session is resolved
Resolve ==
    /\ pc = "idle"
    /\ turns < MaxTurns
    /\ \E sid \in {None, ""} \cup ClientIds \cup DOMAIN SESSIONS, text \in Texts :
        LET r == get_or_create_session(SESSIONS, sid, uuid4(uuids + 1))
        IN  /\ req' = [session_id |-> sid, text |-> text]
            /\ session_id' = r.sid
            /\ SESSIONS' = r.store
            /\ uuids' = IF r.sid = uuid4(uuids + 1) THEN uuids + 1 ELSE uuids
    /\ SESSIONS0' = SESSIONS
    /\ turns' = turns + 1
    /\ pc' = "check_empty"
    /\ UNCHANGED <<user_text, decision, call, resp_id, job_id, status, elapsed,
                   exc, response, poll_result, jobs, responses, files,
                   observed, prev>>
    /\ UNCHANGED loop

\* lines 241-243: strip the text, reject an empty message (raised outside
\* the try block: the framework answers 400).  Nothing reads req after
\* line 241, so a turn that goes on no longer carries it.
CheckEmpty ==
    /\ pc = "check_empty"
    /\ user_text' = strip(req.text)
    /\ IF strip(req.text) = <<>>
       THEN /\ response' = [status |-> 400, detail |-> <<"Empty message.", NoId>>]
            /\ pc' = "done"
            /\ UNCHANGED req
       ELSE /\ pc' = "route"
            /\ req' = NoRequest
            /\ UNCHANGED response
    /\ UNCHANGED <<SESSIONS, session_id, decision, call, resp_id, job_id,
                   status, elapsed, exc, poll_result, backend, history>>
    /\ UNCHANGED loop

\* handle_message with line 248 moved before line 245: the raw text is
\* appended before the router is called
Route_AppendFirst ==
    /\ pc = "route"
    /\ SESSIONS' = AppendMessage(SESSIONS, session_id, Msg("user", user_text))
    /\ \/ /\ response' = [status |-> 500, detail |-> <<"Internal Server Error", NoId>>]
          /\ pc' = "done"
          /\ UNCHANGED decision
       \/ /\ \E d \in {NoDecision} \cup [intent : Intent, prompt : Prompts] :
                decision' = d
          /\ pc' = "dispatch"
          /\ UNCHANGED response
    /\ UNCHANGED <<req, session_id, user_text, call, resp_id, job_id,
                   status, elapsed, exc, poll_result, backend, history>>
    /\ UNCHANGED loop

\* line 245, route_intent: the router backend raises (outside the try
\* block: the framework answers 500), or returns output_parsed, which is a
\* RouteDecision or None
Route ==
    /\ pc = "route"
    /\ \/ /\ response' = [status |-> 500, detail |-> <<"Internal Server Error", NoId>>]
          /\ pc' = "done"
          /\ UNCHANGED decision
       \/ /\ \E d \in {NoDecision} \cup [intent : Intent, prompt : Prompts] :
                decision' = d
          /\ pc' = "record"
          /\ UNCHANGED response
    /\ UNCHANGED <<SESSIONS, req, session_id, user_text, call, resp_id, job_id,
                   status, elapsed, exc, poll_result, backend, history>>
    /\ UNCHANGED loop

\* line 248: the raw user text goes into the history
RecordUserText ==
    /\ pc = "record"
    /\ SESSIONS' = AppendMessage(SESSIONS, session_id, Msg("user", user_text))
    /\ pc' = "dispatch"
    /\ UNCHANGED <<locals, backend, history>>
    /\ UNCHANGED loop

\* line 251 reading getattr(decision, "intent", "text"): an absent decision
\* is dispatched to the text generator
DispatchNone_DefaultText ==
    /\ pc = "dispatch"
    /\ decision.intent = None
    /\ SESSIONS' = AppendMessage(SESSIONS, session_id, Msg("user", user_text))
    /\ call' = [kind |-> "text", arg |-> NoId]
    /\ pc' = "text_call"
    /\ UNCHANGED <<req, session_id, user_text, decision, resp_id, job_id, status,
                   elapsed, exc, response, poll_result, backend, history>>
    /\ UNCHANGED loop

\* line 251 with decision = None: decision.intent raises AttributeError
\* inside the try block
DispatchNone ==
    /\ pc = "dispatch"
    /\ decision.intent = None
    /\ exc' = OtherException
    /\ pc' = "except"
    /\ UNCHANGED <<SESSIONS, req, session_id, user_text, decision, call, resp_id,
                   job_id, status, elapsed, response, poll_result, backend, history>>
    /\ UNCHANGED loop

\* ------------------------------------------------------------ text turn
\* lines 251-252, generate_text line 137: the routed prompt is appended as
\* a user message and the text backend is called with all messages
TextCall ==
    /\ pc = "dispatch"
    /\ decision.intent = "text"
    /\ SESSIONS' = AppendMessage(SESSIONS, session_id, Msg("user", decision.prompt))
    /\ call' = [kind |-> "text", arg |-> NoId]
    /\ pc' = "text_call"
    /\ UNCHANGED <<req, session_id, user_text, decision, resp_id, job_id, status,
                   elapsed, exc, response, poll_result, backend, history>>
    /\ UNCHANGED loop

\* generate_text lines 138-144 and handle_message lines 253-260: the
\* backend raises, or its reply is appended and the turn succeeds
TextReturn ==
    /\ pc = "text_call"
    /\ \/ /\ exc' = OtherException
          /\ pc' = "except"
          /\ UNCHANGED <<SESSIONS, response>>
       \/ /\ \E text \in Replies :
                SESSIONS' = SetLastIntent(
                    AppendMessage(SESSIONS, session_id, Msg("assistant", text)),
                    session_id, "text")
          /\ response' = ChatResponse("text")
          /\ pc' = "done"
          /\ UNCHANGED exc
    /\ UNCHANGED <<req, session_id, user_text, decision, call, resp_id, job_id,
                   status, elapsed, poll_result, backend, history>>
    /\ UNCHANGED loop

\* ----------------------------------------------------------- image turn
\* lines 262-263, generate_image lines 148-159: the request is sent, with
\* previous_response_id when the session is iterating on an image
ImageCall ==
    /\ pc = "dispatch"
    /\ decision.intent = "image"
    /\ call' = [kind |-> "image", arg |-> ImageKwargs(session)]
    /\ pc' = "image_call"
    /\ UNCHANGED <<SESSIONS, req, session_id, user_text, decision, resp_id, job_id,
                   status, elapsed, exc, response, poll_result, backend, history>>
    /\ UNCHANGED loop

\* generate_image lines 154-172: the backend raises, or returns a response
\* whose id is stored before its output is searched for an image payload
ImageReturn ==
    /\ pc = "image_call"
    /\ \/ /\ exc' = OtherException
          /\ pc' = "except"
          /\ UNCHANGED <<SESSIONS, resp_id, responses>>
       \/ /\ responses' = responses + 1
          /\ resp_id' = responses + 1
          /\ SESSIONS' = StoreImageResponse(SESSIONS, session_id, responses + 1)
          /\ \E image_b64 \in BOOLEAN :
                IF image_b64
                THEN pc' = "image_save" /\ UNCHANGED exc
                ELSE pc' = "except" /\ exc' = NoImageGenerated
    /\ UNCHANGED <<req, session_id, user_text, decision, call, job_id, status,
                   elapsed, response, poll_result, jobs, files, uuids, history>>
    /\ UNCHANGED loop

\* generate_image lines 174-175 and handle_message lines 264-273: decoding
\* or writing the file raises, or the file is saved and the turn succeeds
ImageSave ==
    /\ pc = "image_save"
    /\ \/ /\ exc' = OtherException
          /\ pc' = "except"
          /\ UNCHANGED <<SESSIONS, response, files>>
       \/ /\ files' = files + 1
          /\ SESSIONS' = AppendMessage(
                SetLastIntent(SESSIONS, session_id, "image"), session_id,
                Msg("assistant", Marker("image", save_bytes("png", files + 1))))
          /\ response' = ChatResponse("image")
          /\ pc' = "done"
          /\ UNCHANGED exc
    /\ UNCHANGED <<req, session_id, user_text, decision, call, resp_id, job_id,
                   status, elapsed, poll_result, jobs, responses, uuids, history>>
    /\ UNCHANGED loop

\* ----------------------------------------------------------- video turn
\* lines 275-276, generate_video lines 195-210: a remix of the recorded job
\* or a fresh creation is requested
VideoCall ==
    /\ pc = "dispatch"
    /\ decision.intent = "video"
    /\ call' = IF UseRemix(session)
               THEN [kind |-> "remix", arg |-> session.last_video_id]
               ELSE [kind |-> "create", arg |-> NoId]
    /\ pc' = "video_call"
    /\ UNCHANGED <<SESSIONS, req, session_id, user_text, decision, resp_id, job_id,
                   status, elapsed, exc, response, poll_result, backend, history>>
    /\ UNCHANGED loop

\* generate_video lines 200-215 and poll_video_until_done line 178: the
\* backend raises, or returns a queued job; its id is recorded, the
\* completed flag is cleared and the poller sets its deadline
VideoReturn ==
    /\ pc = "video_call"
    /\ \/ /\ exc' = OtherException
          /\ pc' = "except"
          /\ UNCHANGED <<SESSIONS, job_id, elapsed, jobs>>
       \/ /\ jobs' = Append(jobs, "queued")
          /\ job_id' = Len(jobs) + 1
          /\ SESSIONS' = RecordVideoJob(SESSIONS, session_id, Len(jobs) + 1)
          /\ elapsed' = 0
          /\ pc' = "poll_check"
          /\ UNCHANGED exc
    /\ UNCHANGED <<req, session_id, user_text, decision, call, resp_id, status,
                   response, poll_result, responses, files, uuids, history>>
    /\ UNCHANGED loop

\* poll_video_until_done lines 179 and 187: the loop test, and the timeout
\* once the deadline has passed
PollCheck ==
    /\ pc = "poll_check"
    /\ IF BeforeDeadline(elapsed)
       THEN /\ pc' = "poll_retrieve"
            /\ UNCHANGED <<exc, poll_result>>
       ELSE /\ exc' = VideoJobTimeout(job_id)
            /\ poll_result' = "timeout"
            /\ pc' = "except"
    /\ UNCHANGED <<SESSIONS, req, session_id, user_text, decision, call, resp_id,
                   job_id, status, elapsed, response, backend, history>>
    /\ UNCHANGED loop

\* poll_video_until_done lines 180-185: videos.retrieve raises, or the
\* job's current status is read and tested
PollRetrieve ==
    /\ pc = "poll_retrieve"
    /\ \/ /\ exc' = OtherException
          /\ pc' = "except"
          /\ UNCHANGED <<status, poll_result, observed>>
       \/ /\ status' = jobs[job_id]
          /\ CASE jobs[job_id] = "completed" ->
                    /\ pc' = "video_completed"
                    /\ poll_result' = "completed"
                    /\ observed' = observed \cup {job_id}
                    /\ UNCHANGED exc
               [] jobs[job_id] = "failed" ->
                    /\ exc' = VideoJobFailed(job_id)
                    /\ poll_result' = "failed"
                    /\ pc' = "except"
                    /\ UNCHANGED observed
               [] OTHER ->
                    /\ pc' = "poll_sleep"
                    /\ UNCHANGED <<exc, poll_result, observed>>
    /\ UNCHANGED <<SESSIONS, req, session_id, user_text, decision, call, resp_id,
                   job_id, elapsed, response, backend, turns, SESSIONS0, prev>>
    /\ UNCHANGED loop

\* poll_video_until_done line 186: time.sleep(VIDEO_POLL_SECONDS); the
\* clock is not followed beyond the deadline
PollSleep ==
    /\ pc = "poll_sleep"
    /\ elapsed' = Min(elapsed + VIDEO_POLL_SECONDS, VIDEO_TIMEOUT_SECONDS)
    /\ pc' = "poll_check"
    /\ UNCHANGED <<SESSIONS, req, session_id, user_text, decision, call, resp_id,
                   job_id, status, exc, response, poll_result, backend, history>>
    /\ UNCHANGED loop

\* generate_video line 216
VideoCompleted ==
    /\ pc = "video_completed"
    /\ SESSIONS' = MarkVideoCompleted(SESSIONS, session_id)
    /\ pc' = "download"
    /\ UNCHANGED <<locals, backend, history>>
    /\ UNCHANGED loop

\* download_video_mp4 lines 190-192 and handle_message lines 277-285: the
\* download or the write raises, or the file is saved and the turn succeeds
Download ==
    /\ pc = "download"
    /\ \/ /\ exc' = OtherException
          /\ pc' = "except"
          /\ UNCHANGED <<SESSIONS, response, files>>
       \/ /\ files' = files + 1
          /\ SESSIONS' = AppendMessage(
                SetLastIntent(SESSIONS, session_id, "video"), session_id,
                Msg("assistant", Marker("video", save_bytes("mp4", files + 1))))
          /\ response' = ChatResponse("video")
          /\ pc' = "done"
          /\ UNCHANGED exc
    /\ UNCHANGED <<req, session_id, user_text, decision, call, resp_id, job_id,
                   status, elapsed, poll_result, jobs, responses, uuids, history>>
    /\ UNCHANGED loop

\* ------------------------------------------------------- end of a turn
\* handle_message lines 288-291: the except clauses
Except ==
    /\ pc = "except"
    /\ response' = Surface(exc)
    /\ pc' = "done"
    /\ UNCHANGED <<SESSIONS, req, session_id, user_text, decision, call, resp_id,
                   job_id, status, elapsed, exc, poll_result, backend, history>>
    /\ UNCHANGED loop

\* the response leaves the process; the handler's frame is gone
EndTurn ==
    /\ pc = "done"
    /\ prev' = [s \in DOMAIN prev \cup {session_id} |->
                  IF s = session_id
                  THEN [intent |-> decision.intent, ok |-> response.status = 200,
                        resp_id |-> resp_id]
                  ELSE prev[s]]
    /\ pc' = "idle"
    /\ req' = NoRequest
    /\ session_id' = None
    /\ user_text' = <<>>
    /\ decision' = NoDecision
    /\ call' = NoCall
    /\ resp_id' = NoId
    /\ job_id' = NoId
    /\ status' = None
    /\ elapsed' = 0
    /\ exc' = NoException
    /\ response' = NoResponse
    /\ poll_result' = None
    /\ UNCHANGED <<SESSIONS, backend, turns, SESSIONS0, observed>>
    /\ UNCHANGED loop

\* -------------------------------------------------------- video backend
\* the backend works on a job: queued -> in_progress -> completed | failed.
\* Only the job the poller is waiting for is followed: app.py reads the
\* status of no other job.
JobProgress ==
    \E j \in {job_id} \ {NoId} :
        /\ \/ jobs[j] = "queued" /\ jobs' = [jobs EXCEPT ![j] = "in_progress"]
           \/ jobs[j] = "in_progress" /\ jobs' = [jobs EXCEPT ![j] = "completed"]
           \/ jobs[j] = "in_progress" /\ jobs' = [jobs EXCEPT ![j] = "failed"]
        /\ UNCHANGED <<SESSIONS, pc, locals, responses, files, uuids, history,
                       loop>>

Next ==
    \/ Resolve
    \/ CheckEmpty
    \/ Route
    \/ RecordUserText
    \/ DispatchNone
    \/ TextCall
    \/ TextReturn
    \/ ImageCall
    \/ ImageReturn
    \/ ImageSave
    \/ VideoCall
    \/ VideoReturn
    \/ PollCheck
    \/ PollRetrieve
    \/ PollSleep
    \/ VideoCompleted
    \/ Download
    \/ Except
    \/ EndTurn
    \/ JobProgress

Spec == Init /\ [][Next]_vars

\* ------------------------------------------------------------- fairness
\* number of requests submitted in the runs checked for termination
FairTurns == 1

\* the steps of poll_video_until_done
Poller == PollCheck \/ PollRetrieve \/ PollSleep

NextFair == Next /\ turns' <= FairTurns

\* The poller's steps are taken sooner or later: videos.retrieve returns or
\* raises, time.sleep returns once the clock has advanced.  Nothing is
\* assumed of the backend: a job may stay queued or in_progress for ever.
SpecFair == Init /\ [][NextFair]_vars /\ WF_vars(Poller)

\* ========================================================== event loop
\* The server runs every handle_message coroutine on one event loop.  A
\* coroutine has the loop from the moment it is started or resumed until it
\* awaits or returns; the loop starts or resumes another coroutine only
\* then.  The specification below follows several requests at once.  Their
\* texts are not empty and the backends answer without error: the other
\* outcomes of a turn are followed in Spec.

\* where a coroutine waits for a backend to answer or for the clock
WaitPoints == {"route_wait", "text_wait", "image_wait", "video_wait",
               "retrieve_wait", "sleep", "download_wait"}
\* where handle_message gives the loop away: lines 238-291 and the
\* functions they call hold no await; client.responses.parse,
\* client.responses.create, client.videos.* and time.sleep return only
\* when the wait is over
AwaitPoints == {}

\* the loop can start or resume coroutine t
CanRun(t) == running = t \/ running = NoTask
\* who has the loop after a coroutine stepped to position p
LoopAfter(t, p) == IF p \in AwaitPoints \cup {"none"} THEN NoTask ELSE t
\* coroutine t steps to the state new
Step(t, new) ==
    /\ tasks' = [tasks EXCEPT ![t] = new]
    /\ running' = LoopAfter(t, new.pc)
\* what the single handler of Spec keeps for itself
handler == <<pc, locals, SESSIONS0, prev>>

\* a client posts to /api/message; the coroutine waits for the loop
LoopSubmit ==
    \E t \in Tasks, sid \in {None} \cup ClientIds \cup DOMAIN SESSIONS :
        /\ tasks[t].pc = "none"
        /\ turns < LoopTurns
        /\ tasks' = [tasks EXCEPT ![t] = [NoTaskState EXCEPT !.pc = "pending",
                                                          !.request = sid]]
        /\ turns' = turns + 1
        /\ UNCHANGED <<running, SESSIONS, backend, observed, handler>>

\* lines 239-245: the coroutine starts, resolves its session and sends the
\* text to the router
LoopResolve ==
    \E t \in Tasks :
        /\ tasks[t].pc = "pending"
        /\ CanRun(t)
        /\ LET r == get_or_create_session(SESSIONS, tasks[t].request,
                                          uuid4(uuids + 1))
           IN  /\ SESSIONS' = r.store
               /\ uuids' = IF r.sid = uuid4(uuids + 1) THEN uuids + 1 ELSE uuids
               /\ Step(t, [tasks[t] EXCEPT !.pc = "route_wait",
                                           !.session_id = r.sid])
        /\ UNCHANGED <<jobs, responses, files, turns, observed, handler>>

\* lines 245-276, 137, 150-152, 199: the router answers; the user text is
\* recorded and the generation request is sent
LoopRoute ==
    \E t \in Tasks, w \in Words, p \in Prompts :
        LET sid == tasks[t].session_id
            heard == AppendMessage(SESSIONS, sid, Msg("user", w))
        IN  /\ tasks[t].pc = "route_wait"
            /\ CanRun(t)
            /\ \/ /\ SESSIONS' = AppendMessage(heard, sid, Msg("user", p))
                  /\ Step(t, [tasks[t] EXCEPT !.pc = "text_wait"])
               \/ /\ SESSIONS' = heard
                  /\ Step(t, [tasks[t] EXCEPT !.pc = "image_wait"])
               \/ /\ SESSIONS' = heard
                  /\ Step(t, [tasks[t] EXCEPT !.pc = "video_wait"])
            /\ UNCHANGED <<backend, turns, observed, handler>>

\* lines 142-143 and 252-260: the text backend answers, the turn ends
LoopTextReturn ==
    \E t \in Tasks, r \in Replies :
        LET sid == tasks[t].session_id
        IN  /\ tasks[t].pc = "text_wait"
            /\ CanRun(t)
            /\ SESSIONS' = SetLastIntent(
                  AppendMessage(SESSIONS, sid, Msg("assistant", r)), sid, "text")
            /\ Step(t, NoTaskState)
            /\ UNCHANGED <<backend, turns, observed, handler>>

\* lines 161-175 and 263-273: the image backend answers, the image is
\* saved, the turn ends
LoopImageReturn ==
    \E t \in Tasks :
        LET sid == tasks[t].session_id
        IN  /\ tasks[t].pc = "image_wait"
            /\ CanRun(t)
            /\ responses' = responses + 1
            /\ files' = files + 1
            /\ SESSIONS' = AppendMessage(
                  SetLastIntent(
                      StoreImageResponse(SESSIONS, sid, responses + 1),
                      sid, "image"),
                  sid,
                  Msg("assistant", Marker("image", save_bytes("png", files + 1))))
            /\ Step(t, NoTaskState)
            /\ UNCHANGED <<jobs, uuids, turns, observed, handler>>

\* lines 200-215 and 178-180: the video backend answers with a queued job;
\* its id is recorded, the completed flag is cleared, the poller sets its
\* deadline and asks for the job's status
LoopVideoReturn ==
    \E t \in Tasks :
        /\ tasks[t].pc = "video_wait"
        /\ CanRun(t)
        /\ jobs' = Append(jobs, "queued")
        /\ SESSIONS' = RecordVideoJob(SESSIONS, tasks[t].session_id, Len(jobs) + 1)
        /\ Step(t, [tasks[t] EXCEPT !.pc = "retrieve_wait",
                                    !.job_id = Len(jobs) + 1,
                                    !.elapsed = 0])
        /\ UNCHANGED <<responses, files, uuids, turns, observed, handler>>

\* lines 180-186, 216-218 and 288-291: videos.retrieve answers.  A completed
\* job is marked and its download is asked for, a failed job ends the turn,
\* any other status sends the poller to sleep
LoopPollRetrieve ==
    \E t \in Tasks :
        LET j == tasks[t].job_id
        IN  /\ tasks[t].pc = "retrieve_wait"
            /\ CanRun(t)
            /\ CASE jobs[j] = "completed" ->
                      /\ SESSIONS' = MarkVideoCompleted(SESSIONS, tasks[t].session_id)
                      /\ observed' = observed \cup {j}
                      /\ Step(t, [tasks[t] EXCEPT !.pc = "download_wait"])
                 [] jobs[j] = "failed" ->
                      /\ Step(t, NoTaskState)
                      /\ UNCHANGED <<SESSIONS, observed>>
                 [] OTHER ->
                      /\ Step(t, [tasks[t] EXCEPT !.pc = "sleep"])
                      /\ UNCHANGED <<SESSIONS, observed>>
            /\ UNCHANGED <<backend, turns, handler>>

\* lines 186, 179-180, 187 and 288-291: time.sleep returns; before the
\* deadline the status is asked for again, after it the turn ends
LoopPollSleep ==
    \E t \in Tasks :
        LET e == Min(tasks[t].elapsed + VIDEO_POLL_SECONDS, VIDEO_TIMEOUT_SECONDS)
        IN  /\ tasks[t].pc = "sleep"
            /\ CanRun(t)
            /\ IF BeforeDeadline(e)
               THEN Step(t, [tasks[t] EXCEPT !.pc = "retrieve_wait", !.elapsed = e])
               ELSE Step(t, NoTaskState)
            /\ UNCHANGED <<SESSIONS, backend, turns, observed, handler>>

\* lines 191-192 and 277-285: the download answers, the file is saved, the
\* turn ends
LoopDownload ==
    \E t \in Tasks :
        LET sid == tasks[t].session_id
        IN  /\ tasks[t].pc = "download_wait"
            /\ CanRun(t)
            /\ files' = files + 1
            /\ SESSIONS' = AppendMessage(
                  SetLastIntent(SESSIONS, sid, "video"), sid,
                  Msg("assistant", Marker("video", save_bytes("mp4", files + 1))))
            /\ Step(t, NoTaskState)
            /\ UNCHANGED <<jobs, responses, uuids, turns, observed, handler>>

\* the backend works on the job a poller is waiting for
LoopJobProgress ==
    \E t \in Tasks :
        LET j == tasks[t].job_id
        IN  /\ j # NoId
            /\ \/ jobs[j] = "queued" /\ jobs' = [jobs EXCEPT ![j] = "in_progress"]
               \/ jobs[j] = "in_progress" /\ jobs' = [jobs EXCEPT ![j] = "completed"]
               \/ jobs[j] = "in_progress" /\ jobs' = [jobs EXCEPT ![j] = "failed"]
            /\ UNCHANGED <<SESSIONS, responses, files, uuids, turns, observed,
                           handler, loop>>

NextLoop ==
    \/ LoopSubmit
    \/ LoopResolve
    \/ LoopRoute
    \/ LoopTextReturn
    \/ LoopImageReturn
    \/ LoopVideoReturn
    \/ LoopPollRetrieve
    \/ LoopPollSleep
    \/ LoopDownload
    \/ LoopJobProgress

SpecLoop == Init /\ [][NextLoop]_vars

\* ================================================================ claims
\* the messages session sid held when the current request arrived
MessagesBefore(sid) ==
    IF sid \in DOMAIN SESSIONS0 THEN SESSIONS0[sid].messages ELSE <<>>

\* the assistant markers of the image files written so far
ImageMarkers == {<<"[image generated] " \o save_bytes("png", n)>> : n \in 1..files}

HasImageMarker(messages) ==
    \E i \in 1..Len(messages) :
        messages[i].role = "assistant" /\ messages[i].content \in ImageMarkers

\* C1: a request whose text is empty or whitespace-only ends with the 400
\* client error and leaves the session registry exactly as it was: no
\* session created, no existing SessionState changed.
C1_EmptyInputMutatesNothing ==
    (pc = "done" /\ user_text = <<>>) =>
        (response.status = 400 /\ SESSIONS = SESSIONS0)

\* C2 as stated: a successful text turn makes session.messages longer by
\* exactly two entries, one user entry followed by one assistant entry.
C2_TextTurnAppendsTwo ==
    (pc = "done" /\ decision.intent = "text" /\ response.status = 200) =>
        LET old == MessagesBefore(session_id)
            new == session.messages
        IN  /\ Len(new) = Len(old) + 2
            /\ SubSeq(new, 1, Len(old)) = old
            /\ new[Len(old) + 1].role = "user"
            /\ new[Len(old) + 2].role = "assistant"

\* C2 as amended: a successful text turn makes session.messages longer by
\* exactly three entries, appended after all earlier entries in this order:
\* the raw user text (user), the routed prompt (user), the reply (assistant).
C2_TextTurnAppendsThree ==
    (pc = "done" /\ decision.intent = "text" /\ response.status = 200) =>
        LET old == MessagesBefore(session_id)
            new == session.messages
        IN  /\ Len(new) = Len(old) + 3
            /\ SubSeq(new, 1, Len(old)) = old
            /\ new[Len(old) + 1] = Msg("user", user_text)
            /\ new[Len(old) + 2] = Msg("user", decision.prompt)
            /\ new[Len(old) + 3].role = "assistant"
            /\ new[Len(old) + 3].content \in Replies

\* a second successful text turn on a session that already holds a turn
C2_Witness ==
    /\ pc = "done"
    /\ decision.intent = "text"
    /\ response.status = 200
    /\ Len(MessagesBefore(session_id)) >= 3

\* C3: a video turn sends a remix only when the turn just before it on the
\* session was routed to video and the recorded job was completed; after a
\* turn routed to text or image, failed or not, it sends a fresh creation.
C3_RemixOnlyAfterVideoTurn ==
    (pc = "video_call" /\ PrevTurn(session_id).intent \in Intent /\ call.kind = "remix") =>
        /\ PrevTurn(session_id).intent = "video"
        /\ session.last_video_id # NoId
        /\ session.last_video_completed

\* C4: an image turn that follows a turn routed to text or video, failed
\* or not, sends its request without previous_response_id.
C4_NoHandleAcrossOtherIntent ==
    (pc = "image_call" /\ PrevTurn(session_id).intent \in {"text", "video"}) =>
        call.arg = NoId

\* C5: an image turn that directly follows a successful image turn sends
\* the response id of that turn as previous_response_id, and when it
\* succeeds the session holds its own response id in place of the first.
C5_ImageTurnsChain ==
    (call.kind = "image" /\ PrevTurn(session_id).intent = "image"
                         /\ PrevTurn(session_id).ok) =>
        /\ call.arg = PrevTurn(session_id).resp_id
        /\ (pc = "done" /\ response.status = 200) =>
                /\ session.last_image_response_id = resp_id
                /\ resp_id # PrevTurn(session_id).resp_id

\* a second image turn in a row has succeeded
C5_Witness ==
    /\ pc = "done"
    /\ decision.intent = "image"
    /\ response.status = 200
    /\ PrevTurn(session_id).intent = "image"
    /\ PrevTurn(session_id).ok

\* C6: last_video_completed is set only on a session whose last_video_id is
\* set and names a job the poller has seen completed; from the return of
\* create/remix until the poller sees completed the flag is false.
C6_CompletedOnlyAfterObserved ==
    /\ \A sid \in DOMAIN SESSIONS :
          SESSIONS[sid].last_video_completed =>
              /\ SESSIONS[sid].last_video_id # NoId
              /\ SESSIONS[sid].last_video_id \in observed
    /\ pc \in {"poll_check", "poll_retrieve", "poll_sleep", "video_completed"} =>
          /\ session.last_video_id = job_id
          /\ ~session.last_video_completed

\* the poller waits for a remix of a video that had been completed
C6_Witness ==
    /\ pc = "poll_sleep"
    /\ call.kind = "remix"
    /\ call.arg \in observed
    /\ ~session.last_video_completed

\* C7: between turns, a session holds an image continuation handle only if
\* one of its image turns has succeeded; an image turn that failed for lack
\* of an image payload leaves no handle behind.
C7_HandleOnlyAfterSuccessfulImage ==
    pc \in {"idle", "done"} =>
        \A sid \in DOMAIN SESSIONS :
            SESSIONS[sid].last_image_response_id # NoId =>
                HasImageMarker(SESSIONS[sid].messages)

\* C8: resolving a known id returns that id and leaves the registry as it
\* was; resolving any other id inserts exactly one empty SessionState under
\* an id not in the registry before and touches no other session.
C8_ResolveCreatesOnce ==
    pc = "check_empty" =>
        IF req.session_id \in DOMAIN SESSIONS0
        THEN /\ session_id = req.session_id
             /\ SESSIONS = SESSIONS0
        ELSE /\ session_id \notin DOMAIN SESSIONS0
             /\ DOMAIN SESSIONS = DOMAIN SESSIONS0 \cup {session_id}
             /\ SESSIONS[session_id] = SessionState
             /\ \A s \in DOMAIN SESSIONS0 : SESSIONS[s] = SESSIONS0[s]

\* a later resolve finds the session with the messages it accumulated
C8_Witness ==
    /\ pc = "check_empty"
    /\ req.session_id \in DOMAIN SESSIONS0
    /\ Len(session.messages) > 0

\* C9 as stated: resolving an absent or unknown id stores an empty
\* SessionState under a newly generated id and returns the generated id.
C9_UnknownIdGetsGeneratedId ==
    (pc = "check_empty" /\ req.session_id \notin DOMAIN SESSIONS0) =>
        /\ session_id # req.session_id
        /\ session_id = uuid4(uuids)
        /\ session_id \notin DOMAIN SESSIONS0
        /\ SESSIONS[session_id] = SessionState

\* C9 as amended: resolving an absent (None or empty) id stores an empty
\* SessionState under a newly generated id; resolving a provided id the
\* registry does not know stores an empty SessionState under that provided
\* id; either way the id stored under is the id returned.
C9_UnknownIdIsKept ==
    (pc = "check_empty" /\ req.session_id \notin DOMAIN SESSIONS0) =>
        /\ session_id \notin DOMAIN SESSIONS0
        /\ SESSIONS[session_id] = SessionState
        /\ IF req.session_id \in {None, ""}
           THEN session_id = uuid4(uuids)
           ELSE session_id = req.session_id

\* a client-made id the registry does not know has been resolved
C9_Witness ==
    /\ pc = "check_empty"
    /\ req.session_id \in ClientIds
    /\ req.session_id \notin DOMAIN SESSIONS0

\* C10: a poller that saw status failed ends the turn with the 500
\* job-failed error naming the job, a poller whose deadline passed with the
\* status non-terminal ends it with the 504 timeout error naming the job,
\* and the caller receives each as raised.
C10_FailedAndTimeoutSurfaced ==
    pc = "done" =>
        /\ poll_result = "failed" =>
              /\ status = "failed"
              /\ response = [status |-> 500, detail |-> <<"Video job failed: ", job_id>>]
        /\ poll_result = "timeout" =>
              /\ elapsed >= VIDEO_TIMEOUT_SECONDS
              /\ status \notin {"completed", "failed"}
              /\ response = [status |-> 504,
                             detail |-> <<"Video generation timed out: ", job_id>>]

\* a video turn has ended in the timeout error
C10_Witness ==
    /\ pc = "done"
    /\ poll_result = "timeout"
    /\ response.status = 504

\* the SessionState session sid held when the current request arrived; a
\* session the request created starts from the defaults
StateBefore(sid) ==
    IF sid \in DOMAIN SESSIONS0 THEN SESSIONS0[sid] ELSE SessionState

\* C11: a turn that ends in an error leaves session.last_intent as it was
\* before the turn; a turn that returns a response leaves it equal to the
\* intent the router decided for the turn.
C11_LastIntentOnlyOnSuccess ==
    pc = "done" =>
        IF response.status = 200
        THEN session.last_intent = decision.intent
        ELSE session.last_intent = StateBefore(session_id).last_intent

\* a turn routed to another intent than the session's last one has failed
C11_Witness ==
    /\ pc = "done"
    /\ response.status # 200
    /\ decision.intent \in Intent
    /\ session.last_intent \in Intent
    /\ session.last_intent # decision.intent

\* C12: a turn whose routing failed (the router backend raised, or returned
\* no decision) ends in an error, with no intent put in place of the missing
\* one and no request sent to the text, image or video backend.
C12_RoutingFailureStopsTurn ==
    (pc \in {"record", "dispatch", "text_call", "image_call", "image_save",
             "video_call", "except", "done"}
        /\ user_text # <<>> /\ decision.intent \notin Intent) =>
        /\ pc \in {"record", "dispatch", "except", "done"}
        /\ decision = NoDecision
        /\ call = NoCall
        /\ resp_id = NoId
        /\ job_id = NoId
        /\ pc = "done" => response.status = 500

\* a turn whose router returned no decision has ended
C12_Witness ==
    /\ pc = "done"
    /\ user_text # <<>>
    /\ decision = NoDecision
    /\ response = [status |-> 500, detail |-> <<"str(e)", NoId>>]

\* C14: whenever generate_video sends a remix against a job, the backend
\* status of that job is completed.
C14_RemixOnlyOfCompletedJob ==
    call.kind = "remix" =>
        /\ call.arg \in 1..Len(jobs)
        /\ jobs[call.arg] = "completed"

\* a remix has been sent
C14_Witness ==
    /\ pc = "video_call"
    /\ call.kind = "remix"

\* C15: from the return of create/remix on, through the polling and after
\* a turn that ended in job failure or timeout, the session holds the id of
\* the job this turn issued and last_video_completed = false, not the id or
\* flag of an earlier completed job.
C15_JobRecordedBeforePolling ==
    (\/ pc \in {"poll_check", "poll_retrieve", "poll_sleep"}
     \/ pc \in {"except", "done"} /\ poll_result \in {"failed", "timeout"}) =>
        /\ job_id = Len(jobs)
        /\ job_id \notin observed
        /\ session.last_video_id = job_id
        /\ ~session.last_video_completed

\* the remix of a completed video has ended in job failure
C15_Witness ==
    /\ pc = "done"
    /\ poll_result = "failed"
    /\ call.kind = "remix"
    /\ call.arg \in observed

\* C16: at the step in which the poller raises the timeout, the backend
\* status of the job is neither completed nor failed; a job that became
\* terminal before the deadline test, the last sleep included, is not
\* reported as timeout.
C16_TimeoutOnlyIfJobNonTerminal ==
    [][(pc = "poll_check" /\ pc' = "except") =>
            jobs[job_id] \notin {"completed", "failed"}]_vars

\* the marker handle_message appends for the n-th file written
ExpectedMarker(intent, n) ==
    IF intent = "image"
    THEN <<"[image generated] /outputs/" \o ToString(n) \o ".png">>
    ELSE <<"[video generated] /outputs/" \o ToString(n) \o ".mp4">>

\* C18: an image or video turn appends the raw user text as a user message
\* after routing and before its generator runs; when it succeeds it appends
\* after that exactly one assistant marker naming the url of the file it
\* wrote, and nothing else; when it fails it appends no marker.
C18_MediaTurnAppendsTextAndMarker ==
    (decision.intent \in {"image", "video"} /\ pc # "record") =>
        LET old == MessagesBefore(session_id)
            new == session.messages
        IN  IF pc = "done" /\ response.status = 200
            THEN new = old \o <<Msg("user", user_text),
                                Msg("assistant", ExpectedMarker(decision.intent, files))>>
            ELSE new = old \o <<Msg("user", user_text)>>

\* a video turn has succeeded on a session that already held messages
C18_Witness ==
    /\ pc = "done"
    /\ decision.intent = "video"
    /\ response.status = 200
    /\ Len(MessagesBefore(session_id)) > 0

\* C19: until the router has returned nothing is appended, and a turn whose
\* routing call raised leaves messages, last_intent, last_image_response_id,
\* last_video_id and last_video_completed of its session, and every other
\* session, as they were before the turn.
C19_RoutingErrorLeavesSession ==
    (\/ pc = "route"
     \/ pc = "done" /\ response.detail[1] = "Internal Server Error") =>
        /\ session = StateBefore(session_id)
        /\ \A s \in DOMAIN SESSIONS0 : SESSIONS[s] = SESSIONS0[s]

\* the routing call has raised on a session that holds earlier turns
C19_Witness ==
    /\ pc = "done"
    /\ response.detail[1] = "Internal Server Error"
    /\ Len(session.messages) > 0
    /\ session.last_intent # None

\* the positions inside poll_video_until_done
PollPcs == {"poll_check", "poll_retrieve", "poll_sleep"}

\* C17 as stated, its outcomes: a poller that ended by raising raised the
\* job-failed error or the timeout error.
C17_PollerRaisesFailedOrTimeout ==
    (pc = "except" /\ job_id # NoId /\ poll_result # "completed") =>
        poll_result \in {"failed", "timeout"}

\* C17 as amended: whatever the job does, poll_video_until_done ends, in
\* one of four ways: it returns after it saw completed, raises job-failed
\* after it saw failed, raises the timeout once the deadline has passed, or
\* lets an exception of videos.retrieve through; its steps never change the
\* status of a job.
C17_PollerTerminates ==
    /\ (pc \in PollPcs) ~> (pc \in {"video_completed", "except"})
    /\ [][(pc \in PollPcs /\ pc' \notin PollPcs) =>
            \/ pc' = "video_completed" /\ status' = "completed" /\ poll_result' = "completed"
            \/ pc' = "except" /\ status' = "failed" /\ exc' = VideoJobFailed(job_id)
            \/ pc' = "except" /\ ~BeforeDeadline(elapsed) /\ exc' = VideoJobTimeout(job_id)
            \/ pc' = "except" /\ pc = "poll_retrieve" /\ exc' = OtherException]_vars
    /\ [][Poller => jobs' = jobs]_vars

\* the poller has timed out on a job the backend never started
C17_Witness ==
    /\ pc = "except"
    /\ poll_result = "timeout"
    /\ jobs[job_id] = "queued"

\* ---- C13
\* C13: two requests submitted concurrently for one session id are processed
\* without mutual exclusion: while a turn on a session waits between its
\* routing step and its final session update, a request for the same
\* session that has arrived can start and so read and write the session.
C13_SameSessionTurnsInterleave ==
    \A t \in Tasks, u \in Tasks :
        (/\ t # u
         /\ tasks[t].pc \in WaitPoints
         /\ tasks[u].pc = "pending"
         /\ tasks[u].request = tasks[t].session_id) => CanRun(u)

\* ---- C20
\* C20: nothing shared is held while a turn waits on routing, on a
\* generation backend or in the poller's sleep-then-check cycle: while one
\* session's video turn is polling, a request for another session can start
\* its turn without waiting for the poll to finish.
C20_NothingHeldWhileWaiting ==
    /\ \A t \in Tasks : tasks[t].pc \in WaitPoints => running # t
    /\ \A t \in Tasks, u \in Tasks :
          (/\ tasks[t].pc \in {"retrieve_wait", "sleep"}
           /\ tasks[u].pc = "pending"
           /\ tasks[u].request # tasks[t].session_id) => CanRun(u)

====
